---- MODULE Spec2Model ----
(***************************************************************************)
(* Verification model of four fragments of the repository:                 *)
(*   - mastery/010_task_queues.py: TaskQueue (asyncio.Queue + worker loop  *)
(*     + shutdown_event), specification QueueSpec / QueueFairSpec;         *)
(*   - mastery/019_event_driven_architecture.py: Consumer (handler         *)
(*     registry, processed_keys guard, start() loop), ConsumerSpec (one    *)
(*     object) and GroupSpec (two objects of one consumer group);          *)
(*   - mastery/009_advanced_decorators_context.py: retry and               *)
(*     atomic_transaction as demo() uses them, DecoSpec;                   *)
(*   - mastery/009_decorators_and_context_managers.py: ttl_cache called    *)
(*     from several threads, CacheSpec.                                    *)
(* asyncio is cooperative: a step of the model is what one task does       *)
(* between two suspension points (an await that really suspends).          *)
(***************************************************************************)
EXTENDS Integers, Sequences, FiniteSets, TLC

\* ----------------------------------------------------------------- bounds
MaxPublish == 3      \* publish() calls in a behaviour
MaxWorkers == 2      \* worker() tasks created on the TaskQueue
NumStoppers == 2     \* callers of stop()
MaxHandlers == 2     \* on() calls in a behaviour
MaxDeliveries == 3   \* broker deliveries (redeliveries included) in a behaviour
MaxAttempts == 3     \* largest `attempts` given to retry()
MaxInvocations == 2  \* calls of the retry wrapper in a behaviour
MaxTxns == 2         \* with atomic_transaction(conn) blocks in a behaviour
MaxClock == 3        \* largest value of time.monotonic()
MaxCalls == 3        \* calls of the ttl_cache wrapper in a behaviour

\* asyncio.Queue() is built with its default maxsize, 0: "infinite".
maxsize == 0

\* @ttl_cache(ttl_seconds=1.0)
ttl_seconds == 1

Payloads == 1..MaxPublish          \* the n-th published payload is n
Workers  == 1..MaxWorkers
Stoppers == 1..NumStoppers

Consumers  == {"c1", "c2"}         \* Consumer objects
Loops      == {1, 2}               \* start() calls
HandlerIds == {"H1", "H2"}         \* handler functions
Topic      == "user.created"       \* Consumer.topic
Events     == {Topic, "order.paid"}
Slots      == 1..MaxHandlers       \* positions in a handler list
\* the messages the broker can deliver to a consumer subscribed to Topic
Messages   == { [topic |-> Topic, partition |-> 0, offset |-> 0],
                [topic |-> Topic, partition |-> 0, offset |-> 1] }
NoMsg      == [topic |-> "", partition |-> -1, offset |-> -1]

Threads   == {"t1", "t2"}          \* threads that call the cached function
CacheArgs == {1, 2}                \* arguments it is called with

VARIABLES
    \* ---- TaskQueue (010_task_queues.py)
    queue,          \* asyncio.Queue._queue: pending payloads, FIFO
    unfinished,     \* asyncio.Queue._unfinished_tasks
    shutdown,       \* shutdown_event.is_set()
    nworkers,       \* how many worker() tasks were created
    wpc,            \* position of each worker() task
    cur,            \* payload held by each worker() (0: none)
    published,      \* number of publish() calls completed
    publishedAtStop,\* published when stop() was first called (-1: not yet)
    calls,          \* handler invocations per payload
    hstate,         \* per payload: state of its handler call
    done,           \* task_done() calls per payload
    spc,            \* position of each stop() caller
    \* ---- Consumer (019_event_driven_architecture.py)
    owner,          \* the Consumer object each start() call runs on
    handlers,       \* Consumer.handlers: event name -> list of handlers
    processed_keys, \* Consumer.processed_keys
    lpc,            \* position of each start() call
    lmsg,           \* key of the message a start() call is dispatching
    lidx,           \* index in the handler list of the handler being awaited
    lexc,           \* exception a start() call is leaving its loop with
    inv,            \* handler invocations per object, key and list position
    got,            \* payload each of those invocations was called with
    regAt,          \* handlers registered for the topic when a key was recorded
    delivered,      \* broker deliveries in all
    stops,          \* consumer.stop() calls made by each start() call
    committed,      \* keys of the messages whose offset the group has committed
    received,       \* keys of the messages the async for has yielded, per object
    invokedAs,      \* <<object, event name, handler>> of every handler invocation
    \* ---- retry, atomic_transaction (009_advanced_decorators_context.py)
    attempts,       \* retry(attempts=...)
    rpc,            \* position of the retry wrapper
    ri,             \* i of `for i in range(attempts)`
    ncalls,         \* calls of the wrapped function in the current wrapper call
    last_exc,       \* last_exc: <<class, number of the call that raised it>>
    rresult,        \* what the wrapper returned or raised
    ninvocations,   \* calls of the wrapper
    rcaller,        \* where the wrapper was called from
    in_txn,         \* DBConnection._in_txn
    tpc,            \* position of demo() relative to the with-block
    txlog,          \* begin/commit/rollback calls on the connection, in order
    ntx,            \* with-blocks entered
    texc,           \* exception the last with-block was left with
    \* ---- ttl_cache (009_decorators_and_context_managers.py)
    clock,          \* time.monotonic()
    thpc,           \* position of each thread in the wrapper
    thkey,          \* key of each thread's call
    thnow,          \* now of each thread's call
    thret,          \* value last returned to each thread
    cache,          \* cache: key -> (expires_at, value)
    lock,           \* holder of the lock
    execAt,         \* per argument: clock values at which fn was called
    wcalls          \* calls of the wrapper

qvars == <<queue, unfinished, shutdown, nworkers, wpc, cur, published,
           publishedAtStop, calls, hstate, done, spc>>

cvars == <<owner, handlers, processed_keys, lpc, lmsg, lidx, lexc, inv, got,
           regAt, delivered, stops, committed, received, invokedAs>>

dvars == <<attempts, rpc, ri, ncalls, last_exc, rresult, ninvocations, rcaller,
           in_txn, tpc, txlog, ntx, texc>>

tvars == <<clock, thpc, thkey, thnow, thret, cache, lock, execAt, wcalls>>

vars == <<qvars, cvars, dvars, tvars>>

\* ------------------------------------------------------ asyncio.Queue
\* Queue.full(): never true when maxsize <= 0.
full(q) == maxsize > 0 /\ Len(q) >= maxsize

\* Queue.empty()
empty(q) == Len(q) = 0

\* Event.set() of Queue._finished: every join() waiting is woken; it resumes
\* on a later turn of the event loop.
WakeJoiners(pcs) == [s \in Stoppers |-> IF pcs[s] = "waiting" THEN "woken" ELSE pcs[s]]

\* the while condition with `or` in the place of `and`
LoopCheck_or(sd, q) == IF sd \/ empty(q) THEN "exited" ELSE "getting"

\* the while condition of worker(): leave the loop or poll the queue again
LoopCheck(sd, q) == IF sd /\ empty(q) THEN "exited" ELSE "getting"

Finished == {"returned", "raised", "cancelled"}

QueueInit ==
    /\ queue = <<>>
    /\ unfinished = 0
    /\ shutdown = FALSE
    /\ nworkers \in 1..MaxWorkers
    /\ wpc = [w \in Workers |-> IF w <= nworkers THEN "created" ELSE "absent"]
    /\ cur = [w \in Workers |-> 0]
    /\ published = 0
    /\ publishedAtStop = -1
    /\ calls = [p \in Payloads |-> 0]
    /\ hstate = [p \in Payloads |-> "none"]
    /\ done = [p \in Payloads |-> 0]
    /\ spc = [s \in Stoppers |-> "idle"]

\* a publish() that clears shutdown_event
Publish_clears_flag ==
    /\ UNCHANGED <<cvars, dvars, tvars>>
    /\ published < MaxPublish
    /\ ~full(queue)
    /\ published' = published + 1
    /\ queue' = Append(queue, published + 1)
    /\ unfinished' = unfinished + 1
    /\ shutdown' = FALSE
    /\ UNCHANGED <<nworkers, wpc, cur, publishedAtStop, calls, hstate, done, spc>>

\* publish(): await queue.put(payload). put() suspends only while full().
Publish ==
    /\ UNCHANGED <<cvars, dvars, tvars>>
    /\ published < MaxPublish
    /\ ~full(queue)
    /\ published' = published + 1
    /\ queue' = Append(queue, published + 1)
    /\ unfinished' = unfinished + 1
    /\ UNCHANGED <<shutdown, nworkers, wpc, cur, publishedAtStop, calls, hstate, done, spc>>

\* the worker() task runs for the first time: first test of the while condition
WorkerStart(w) ==
    /\ UNCHANGED <<cvars, dvars, tvars>>
    /\ wpc[w] = "created"
    /\ wpc' = [wpc EXCEPT ![w] = LoopCheck(shutdown, queue)]
    /\ UNCHANGED <<queue, unfinished, shutdown, nworkers, cur, published,
                   publishedAtStop, calls, hstate, done, spc>>

\* a get() that returns the newest payload (a LifoQueue)
WorkerGet_lifo(w) ==
    /\ UNCHANGED <<cvars, dvars, tvars>>
    /\ wpc[w] = "getting"
    /\ ~empty(queue)
    /\ LET p == queue[Len(queue)] IN
        /\ queue' = SubSeq(queue, 1, Len(queue) - 1)
        /\ cur' = [cur EXCEPT ![w] = p]
        /\ calls' = [calls EXCEPT ![p] = @ + 1]
        /\ hstate' = [hstate EXCEPT ![p] = "running"]
    /\ wpc' = [wpc EXCEPT ![w] = "handling"]
    /\ UNCHANGED <<unfinished, shutdown, nworkers, published, publishedAtStop, done, spc>>

\* task_done() placed right after the get(), before the handler call
WorkerGet_done_before_handler(w) ==
    /\ UNCHANGED <<cvars, dvars, tvars>>
    /\ wpc[w] = "getting"
    /\ ~empty(queue)
    /\ LET p == Head(queue) IN
        /\ queue' = Tail(queue)
        /\ cur' = [cur EXCEPT ![w] = p]
        /\ calls' = [calls EXCEPT ![p] = @ + 1]
        /\ hstate' = [hstate EXCEPT ![p] = "running"]
        /\ done' = [done EXCEPT ![p] = @ + 1]
    /\ unfinished' = unfinished - 1
    /\ spc' = IF unfinished - 1 = 0 THEN WakeJoiners(spc) ELSE spc
    /\ wpc' = [wpc EXCEPT ![w] = "handling"]
    /\ UNCHANGED <<shutdown, nworkers, published, publishedAtStop>>

\* queue.get() returns the oldest payload and the handler is called with it
WorkerGet(w) ==
    /\ UNCHANGED <<cvars, dvars, tvars>>
    /\ wpc[w] = "getting"
    /\ ~empty(queue)
    /\ LET p == Head(queue) IN
        /\ queue' = Tail(queue)
        /\ cur' = [cur EXCEPT ![w] = p]
        /\ calls' = [calls EXCEPT ![p] = @ + 1]
        /\ hstate' = [hstate EXCEPT ![p] = "running"]
    /\ wpc' = [wpc EXCEPT ![w] = "handling"]
    /\ UNCHANGED <<unfinished, shutdown, nworkers, published, publishedAtStop, done, spc>>

\* a get() with no timeout: the worker never wakes on an empty queue
WorkerTimeout_no_poll(w) ==
    /\ UNCHANGED <<cvars, dvars, tvars>>
    /\ wpc[w] = "getting"
    /\ empty(queue)
    /\ wpc' = [wpc EXCEPT ![w] = "getting"]
    /\ UNCHANGED <<queue, unfinished, shutdown, nworkers, cur, published,
                   publishedAtStop, calls, hstate, done, spc>>

\* wait_for(..., timeout=0.5) expires on an empty queue: continue
WorkerTimeout(w) ==
    /\ UNCHANGED <<cvars, dvars, tvars>>
    /\ wpc[w] = "getting"
    /\ empty(queue)
    /\ wpc' = [wpc EXCEPT ![w] = LoopCheck(shutdown, queue)]
    /\ UNCHANGED <<queue, unfinished, shutdown, nworkers, cur, published,
                   publishedAtStop, calls, hstate, done, spc>>

\* task_done() placed after the handler call, with no try/finally: it is skipped
\* when the call does not return
HandlerEnds_no_finally(w, outcome) ==
    /\ UNCHANGED <<cvars, dvars, tvars>>
    /\ wpc[w] = "handling"
    /\ LET p == cur[w] IN
        /\ hstate' = [hstate EXCEPT ![p] = outcome]
        /\ cur' = [cur EXCEPT ![w] = 0]
        /\ IF outcome = "returned"
             THEN /\ unfinished' = unfinished - 1
                  /\ done' = [done EXCEPT ![p] = @ + 1]
                  /\ spc' = IF unfinished - 1 = 0 THEN WakeJoiners(spc) ELSE spc
                  /\ wpc' = [wpc EXCEPT ![w] = LoopCheck(shutdown, queue)]
             ELSE /\ wpc' = [wpc EXCEPT ![w] =
                               IF outcome = "raised" THEN "failed" ELSE "cancelled"]
                  /\ UNCHANGED <<unfinished, done, spc>>
    /\ UNCHANGED <<queue, shutdown, nworkers, published, publishedAtStop, calls>>

\* The handler call of worker w ends with `outcome`; the finally clause runs
\* queue.task_done() (ValueError when called too often), then the worker goes
\* where the outcome sends it.
HandlerEnds(w, outcome) ==
    /\ UNCHANGED <<cvars, dvars, tvars>>
    /\ wpc[w] = "handling"
    /\ LET p == cur[w] IN
        /\ hstate' = [hstate EXCEPT ![p] = outcome]
        /\ cur' = [cur EXCEPT ![w] = 0]
        /\ IF unfinished <= 0
             THEN /\ wpc' = [wpc EXCEPT ![w] = "failed"]
                  /\ UNCHANGED <<unfinished, done, spc>>
             ELSE /\ unfinished' = unfinished - 1
                  /\ done' = [done EXCEPT ![p] = @ + 1]
                  /\ spc' = IF unfinished - 1 = 0 THEN WakeJoiners(spc) ELSE spc
                  /\ wpc' = [wpc EXCEPT ![w] =
                               CASE outcome = "returned"  -> LoopCheck(shutdown, queue)
                                 [] outcome = "raised"    -> "failed"
                                 [] outcome = "cancelled" -> "cancelled"]
    /\ UNCHANGED <<queue, shutdown, nworkers, published, publishedAtStop, calls>>

HandlerReturns(w) == HandlerEnds(w, "returned")

\* the handler raises: nothing in worker() catches it, the task ends with it
HandlerRaises(w) == HandlerEnds(w, "raised")

\* stop(): shutdown_event.set(), then queue.join(), which suspends only if
\* _unfinished_tasks > 0
StopCall(s) ==
    /\ UNCHANGED <<cvars, dvars, tvars>>
    /\ spc[s] = "idle"
    /\ shutdown' = TRUE
    /\ publishedAtStop' = IF shutdown THEN publishedAtStop ELSE published
    /\ spc' = [spc EXCEPT ![s] = IF unfinished > 0 THEN "waiting" ELSE "returned"]
    /\ UNCHANGED <<queue, unfinished, nworkers, wpc, cur, published, calls, hstate, done>>

\* a woken join() resumes and stop() returns; join() does not test the count again
StopReturn(s) ==
    /\ UNCHANGED <<cvars, dvars, tvars>>
    /\ spc[s] = "woken"
    /\ spc' = [spc EXCEPT ![s] = "returned"]
    /\ UNCHANGED <<queue, unfinished, shutdown, nworkers, wpc, cur, published,
                   publishedAtStop, calls, hstate, done>>

\* main(): after `await queue.stop()`, worker_task.cancel()
CancelWorker(w) ==
    /\ \E s \in Stoppers : spc[s] = "returned"
    /\ \/ /\ wpc[w] \in {"created", "getting"}
          /\ wpc' = [wpc EXCEPT ![w] = "cancelled"]
          /\ UNCHANGED <<cvars, dvars, tvars>>
          /\ UNCHANGED <<queue, unfinished, shutdown, nworkers, cur, published,
                         publishedAtStop, calls, hstate, done, spc>>
       \/ HandlerEnds(w, "cancelled")

QueueNext ==
    \/ Publish
    \/ \E w \in Workers : WorkerStart(w)
    \/ \E w \in Workers : WorkerGet(w)
    \/ \E w \in Workers : WorkerTimeout(w)
    \/ \E w \in Workers : HandlerReturns(w)
    \/ \E w \in Workers : HandlerRaises(w)
    \/ \E s \in Stoppers : StopCall(s)
    \/ \E s \in Stoppers : StopReturn(s)
    \/ \E w \in Workers : CancelWorker(w)

\* ------------------------------------------------------------- Consumer
\* f"{msg.topic}:{msg.partition}:{msg.offset}"
KeyOf(m) == <<m.topic, ":", m.partition, ":", m.offset>>

Keys == {KeyOf(m) : m \in Messages}

\* msg.value: the bytes the broker holds at that position of the log
BrokerValue(m) == <<"bytes", m.partition, m.offset>>

\* bytes.decode()
decode(b) == <<"str", b[2], b[3]>>

\* payload = {"value": msg.value.decode()}
PayloadOf(m) == [value |-> decode(BrokerValue(m))]

NoPayload == [value |-> <<"none">>]

\* dict.get(key, default): reads, never inserts
DictGet(d, e, default) == IF e \in DOMAIN d THEN d[e] ELSE default

\* self.handlers[event].append(handler) on a defaultdict(list)
AppendHandler(d, e, h) ==
    [x \in (DOMAIN d) \cup {e} |->
        IF x = e THEN Append(DictGet(d, e, <<>>), h) ELSE d[x]]

RECURSIVE Registrations(_, _)
Registrations(d, es) ==
    IF es = {} THEN 0
    ELSE LET e == CHOOSE x \in es : TRUE
         IN Len(d[e]) + Registrations(d, es \ {e})

\* the key recorded only once the handlers have run: a key on which a handler
\* raised does not count as seen
Seen_after_handlers(c, key) ==
    /\ key \in processed_keys[c]
    /\ ~\E l \in Loops : owner[l] = c /\ lexc[l] = "raised" /\ KeyOf(lmsg[l]) = key

Seen_guard_dropped(c, key) == FALSE

\* the guard `key in self.processed_keys`
Seen(c, key) == key \in processed_keys[c]

\* self.handlers.get(event_name, []) with event_name = self.topic
EventName_other(c) == "order.paid"

\* event_name = self.topic
EventName(c) == Topic

TopicHandlers(c) == DictGet(handlers[c], EventName(c), <<>>)

\* Consumer(topic, group_id): every Consumer object of the model is built as the
\* one of main(), with group_id="payments"
group_id == [c \in Consumers |-> "payments"]

\* __init__: empty registry, empty processed_keys; nothing started or committed
ConsumerFields ==
    /\ handlers = [c \in Consumers |-> [e \in {} |-> <<>>]]
    /\ processed_keys = [c \in Consumers |-> {}]
    /\ lpc = [l \in Loops |-> "idle"]
    /\ lmsg = [l \in Loops |-> NoMsg]
    /\ lidx = [l \in Loops |-> 0]
    /\ lexc = [l \in Loops |-> "none"]
    /\ inv = [c \in Consumers |-> [k \in Keys |-> [i \in Slots |-> 0]]]
    /\ got = [c \in Consumers |-> [k \in Keys |-> [i \in Slots |-> NoPayload]]]
    /\ regAt = [c \in Consumers |-> [k \in Keys |-> -1]]
    /\ delivered = 0
    /\ stops = [l \in Loops |-> 0]
    /\ committed = {}
    /\ received = [c \in Consumers |-> {}]
    /\ invokedAs = {}

\* one Consumer object, start() called on it (twice at most)
ConsumerInit ==
    /\ owner = [l \in Loops |-> "c1"]
    /\ ConsumerFields

\* two Consumer objects of the same group, start() called on each
GroupInit ==
    /\ owner = [l \in Loops |-> IF l = 1 THEN "c1" ELSE "c2"]
    /\ ConsumerFields

RECURSIVE AllRegistrations(_)
AllRegistrations(cs) ==
    IF cs = {} THEN 0
    ELSE LET c == CHOOSE x \in cs : TRUE
         IN Registrations(handlers[c], DOMAIN handlers[c]) + AllRegistrations(cs \ {c})

\* on(event, handler)
On(c, e, h) ==
    /\ UNCHANGED <<qvars, dvars, tvars>>
    /\ \E l \in Loops : owner[l] = c
    /\ AllRegistrations(Consumers) < MaxHandlers
    /\ handlers' = [handlers EXCEPT ![c] = AppendHandler(@, e, h)]
    /\ UNCHANGED <<received, invokedAs, owner, processed_keys, lpc, lmsg, lidx, lexc, inv, got, regAt,
                   delivered, stops, committed>>

\* start() is called: the AIOKafkaConsumer is built, `await consumer.start()`
Start(l) ==
    /\ UNCHANGED <<qvars, dvars, tvars>>
    /\ lpc[l] = "idle"
    /\ lpc' = [lpc EXCEPT ![l] = "connecting"]
    /\ UNCHANGED <<received, invokedAs, committed, owner, handlers, processed_keys, lmsg, lidx, lexc, inv, got,
                   regAt, delivered, stops>>

\* consumer.start() returns: the try block is entered, the loop waits for a message
Connected(l) ==
    /\ UNCHANGED <<qvars, dvars, tvars>>
    /\ lpc[l] = "connecting"
    /\ lpc' = [lpc EXCEPT ![l] = "polling"]
    /\ UNCHANGED <<received, invokedAs, committed, owner, handlers, processed_keys, lmsg, lidx, lexc, inv, got,
                   regAt, delivered, stops>>

\* consumer.start() raises (no broker): start() ends before its try block
ConnectFails(l) ==
    /\ UNCHANGED <<qvars, dvars, tvars>>
    /\ lpc[l] = "connecting"
    /\ lpc' = [lpc EXCEPT ![l] = "failed"]
    /\ lexc' = [lexc EXCEPT ![l] = "connect"]
    /\ UNCHANGED <<received, invokedAs, committed, owner, handlers, processed_keys, lmsg, lidx, inv, got,
                   regAt, delivered, stops>>

\* asyncio.gather over the list: every handler of the message is started at once
Invoke_fanout(l, m, i) ==
    LET c == owner[l] IN
    /\ lpc' = [lpc EXCEPT ![l] = "handling"]
    /\ lmsg' = [lmsg EXCEPT ![l] = m]
    /\ lidx' = [lidx EXCEPT ![l] = i]
    /\ inv' = [inv EXCEPT ![c][KeyOf(m)] =
                 [j \in Slots |-> IF j <= Len(TopicHandlers(c)) THEN @[j] + 1 ELSE @[j]]]
    /\ got' = [got EXCEPT ![c][KeyOf(m)][i] = PayloadOf(m)]
    /\ invokedAs' = invokedAs \cup {<<c, EventName(c), TopicHandlers(c)[i]>>}

\* `await handler(payload)` for the handler at position i of the list
Invoke(l, m, i) ==
    LET c == owner[l] IN
    /\ lpc' = [lpc EXCEPT ![l] = "handling"]
    /\ lmsg' = [lmsg EXCEPT ![l] = m]
    /\ lidx' = [lidx EXCEPT ![l] = i]
    /\ inv' = [inv EXCEPT ![c][KeyOf(m)][i] = @ + 1]
    /\ got' = [got EXCEPT ![c][KeyOf(m)][i] = PayloadOf(m)]
    /\ invokedAs' = invokedAs \cup {<<c, EventName(c), TopicHandlers(c)[i]>>}

\* a processed_keys bounded to the newest key: older keys are evicted
Deliver_evicts(l, m) ==
    LET c == owner[l]
        key == KeyOf(m)
    IN
    /\ UNCHANGED <<qvars, dvars, tvars>>
    /\ lpc[l] = "polling"
    /\ delivered < MaxDeliveries
    /\ delivered' = delivered + 1
    /\ received' = [received EXCEPT ![c] = @ \cup {key}]
    /\ IF Seen(c, key)
         THEN UNCHANGED <<invokedAs, processed_keys, regAt, lpc, lmsg, lidx, inv, got>>
         ELSE /\ processed_keys' = [processed_keys EXCEPT ![c] = {key}]
              /\ regAt' = [regAt EXCEPT ![c][key] = Len(TopicHandlers(c))]
              /\ IF Len(TopicHandlers(c)) = 0
                   THEN UNCHANGED <<invokedAs, lpc, lmsg, lidx, inv, got>>
                   ELSE Invoke(l, m, 1)
    /\ UNCHANGED <<committed, owner, handlers, lexc, stops>>

\* a lookup `self.handlers[event_name]` in the place of .get(): the defaultdict
\* inserts an empty list for a missing event name
Deliver_getitem(l, m) ==
    LET c == owner[l]
        key == KeyOf(m)
    IN
    /\ UNCHANGED <<qvars, dvars, tvars>>
    /\ lpc[l] = "polling"
    /\ delivered < MaxDeliveries
    /\ delivered' = delivered + 1
    /\ received' = [received EXCEPT ![c] = @ \cup {key}]
    /\ IF Seen(c, key)
         THEN UNCHANGED <<invokedAs, processed_keys, regAt, lpc, lmsg, lidx, inv, got, handlers>>
         ELSE /\ processed_keys' = [processed_keys EXCEPT ![c] = @ \cup {key}]
              /\ regAt' = [regAt EXCEPT ![c][key] = Len(TopicHandlers(c))]
              /\ handlers' = [handlers EXCEPT ![c] =
                     [x \in (DOMAIN @) \cup {Topic} |-> DictGet(@, x, <<>>)]]
              /\ IF Len(TopicHandlers(c)) = 0
                   THEN UNCHANGED <<invokedAs, lpc, lmsg, lidx, inv, got>>
                   ELSE Invoke(l, m, 1)
    /\ UNCHANGED <<committed, owner, lexc, stops>>

\* the async for yields msg: guard, record the key, call the first handler
Deliver(l, m) ==
    LET c == owner[l]
        key == KeyOf(m)
    IN
    /\ UNCHANGED <<qvars, dvars, tvars>>
    /\ lpc[l] = "polling"
    /\ delivered < MaxDeliveries
    /\ delivered' = delivered + 1
    /\ received' = [received EXCEPT ![c] = @ \cup {key}]
    /\ IF Seen(c, key)
         THEN UNCHANGED <<invokedAs, processed_keys, regAt, lpc, lmsg, lidx, inv, got>>
         ELSE /\ processed_keys' = [processed_keys EXCEPT ![c] = @ \cup {key}]
              /\ regAt' = [regAt EXCEPT ![c][key] = Len(TopicHandlers(c))]
              /\ IF Len(TopicHandlers(c)) = 0
                   THEN UNCHANGED <<invokedAs, lpc, lmsg, lidx, inv, got>>
                   ELSE Invoke(l, m, 1)
    /\ UNCHANGED <<committed, owner, handlers, lexc, stops>>

\* the awaited handler returns: the for loop goes to the next entry of the
\* (live) list, or the async for waits for the next message
CHandlerReturns(l) ==
    /\ UNCHANGED <<qvars, dvars, tvars>>
    /\ lpc[l] = "handling"
    /\ IF lidx[l] < Len(TopicHandlers(owner[l]))
         THEN Invoke(l, lmsg[l], lidx[l] + 1)
         ELSE /\ lpc' = [lpc EXCEPT ![l] = "polling"]
              /\ lmsg' = [lmsg EXCEPT ![l] = NoMsg]
              /\ lidx' = [lidx EXCEPT ![l] = 0]
              /\ UNCHANGED <<inv, got, invokedAs>>
    /\ UNCHANGED <<received, committed, owner, handlers, processed_keys, lexc, regAt,
                   delivered, stops>>

\* no finally clause: the loop is left without a call of consumer.stop()
LeaveLoop_no_finally(l, exc) ==
    /\ lpc' = [lpc EXCEPT ![l] = "stopping"]
    /\ lexc' = [lexc EXCEPT ![l] = exc]
    /\ lidx' = [lidx EXCEPT ![l] = 0]
    /\ stops' = stops

\* an exception leaves the try block: finally, `await consumer.stop()`
LeaveLoop(l, exc) ==
    /\ lpc' = [lpc EXCEPT ![l] = "stopping"]
    /\ lexc' = [lexc EXCEPT ![l] = exc]
    /\ lidx' = [lidx EXCEPT ![l] = 0]
    /\ stops' = [stops EXCEPT ![l] = @ + 1]

\* the awaited handler raises: nothing catches it inside the loops
CHandlerRaises(l) ==
    /\ UNCHANGED <<qvars, dvars, tvars>>
    /\ lpc[l] = "handling"
    /\ LeaveLoop(l, "raised")
    /\ UNCHANGED <<received, invokedAs, committed, owner, handlers, processed_keys, lmsg, inv, got, regAt,
                   delivered>>

\* What a commit of the AIOKafkaConsumer of start() call l covers. The position of
\* the consumer is past every message the async for has yielded; the model follows
\* the message the loop still holds (a message whose dispatch is over, or that was
\* skipped, is of no further interest to a commit).
Held(l) == IF lmsg[l] = NoMsg THEN {} ELSE {KeyOf(lmsg[l])}

\* enable_auto_commit=True: the consumer commits its position in the background,
\* on a timer, whatever the start() coroutine is doing
AutoCommit(l) ==
    /\ UNCHANGED <<qvars, dvars, tvars>>
    /\ lpc[l] \in {"polling", "handling"}
    /\ Held(l) # {}
    /\ ~(Held(l) \subseteq committed)
    /\ committed' = committed \cup Held(l)
    /\ UNCHANGED <<received, invokedAs, owner, handlers, processed_keys, lpc, lmsg, lidx, lexc, inv, got,
                   regAt, delivered, stops>>

\* the async for ends while it waits for a message: the broker consumer raises an
\* error (or the iteration stops); the try block is left through finally
IteratorEnds(l) ==
    /\ UNCHANGED <<qvars, dvars, tvars>>
    /\ lpc[l] = "polling"
    /\ LeaveLoop(l, "ended")
    /\ UNCHANGED <<received, invokedAs, committed, owner, handlers, processed_keys,
                   lmsg, inv, got, regAt, delivered>>

\* consumer.stop() returns: it has committed the position a last time (auto
\* commit), and start() ends with the exception it was leaving with
BrokerStopped(l) ==
    /\ UNCHANGED <<qvars, dvars, tvars>>
    /\ lpc[l] = "stopping"
    /\ lpc' = [lpc EXCEPT ![l] = CASE lexc[l] = "raised" -> "failed"
                                    [] lexc[l] = "ended"  -> "ended"
                                    [] OTHER              -> "cancelled"]
    /\ committed' = committed \cup Held(l)
    /\ UNCHANGED <<received, invokedAs, owner, handlers, processed_keys, lmsg, lidx, lexc, inv, got,
                   regAt, delivered, stops>>

\* main(): consumer_task.cancel(); CancelledError is raised at the await the
\* task is suspended in
CancelLoop(l) ==
    /\ UNCHANGED <<qvars, dvars, tvars>>
    /\ \/ /\ lpc[l] \in {"polling", "handling"}
          /\ LeaveLoop(l, "cancelled")
          /\ UNCHANGED committed
       \/ /\ lpc[l] = "connecting"
          /\ lpc' = [lpc EXCEPT ![l] = "cancelled"]
          /\ lexc' = [lexc EXCEPT ![l] = "cancelled"]
          /\ UNCHANGED <<lidx, stops, committed>>
       \/ /\ lpc[l] = "stopping"       \* consumer.stop() is cut short: its last
          /\ lpc' = [lpc EXCEPT ![l] = "cancelled"]    \* commit was sent or not
          /\ lexc' = [lexc EXCEPT ![l] = "cancelled"]
          /\ committed' \in {committed, committed \cup Held(l)}
          /\ UNCHANGED <<lidx, stops>>
    /\ UNCHANGED <<received, invokedAs, owner, handlers, processed_keys, lmsg, inv, got, regAt,
                   delivered>>

ConsumerNext ==
    \/ \E c \in Consumers, e \in Events, h \in HandlerIds : On(c, e, h)
    \/ \E l \in Loops : Start(l)
    \/ \E l \in Loops : Connected(l)
    \/ \E l \in Loops : ConnectFails(l)
    \/ \E l \in Loops, m \in Messages : Deliver(l, m)
    \/ \E l \in Loops : CHandlerReturns(l)
    \/ \E l \in Loops : CHandlerRaises(l)
    \/ \E l \in Loops : IteratorEnds(l)
    \/ \E l \in Loops : AutoCommit(l)
    \/ \E l \in Loops : BrokerStopped(l)
    \/ \E l \in Loops : CancelLoop(l)

\* ------------------- retry and atomic_transaction (009_advanced_decorators_context.py)
\* exception classes the wrapped function can raise
ExcClasses == {"ConnectionError", "ValueError", "KeyboardInterrupt"}

\* retry_for of flaky_call
retry_for == {"ConnectionError"}

\* `except Exception` catches every class but the BaseException-only ones.
IsException(cls) == cls \in {"ConnectionError", "ValueError", "RuntimeError"}

None == <<"None", 0>>

\* RuntimeError("retry failed with no exception captured")
RetryFailed == <<"RuntimeError", 0>>

\* an exception object is truthy
Truthy(exc) == exc # None

InRange_inclusive(i, n) == i >= 0 /\ i <= n

\* i is produced by range(n)
InRange(i, n) == i >= 0 /\ i < n

DecoInit ==
    /\ attempts = 0
    /\ rpc = "undecorated"
    /\ ri = 0
    /\ ncalls = 0
    /\ last_exc = None
    /\ rresult = None
    /\ ninvocations = 0
    /\ rcaller = "main"
    /\ in_txn = FALSE
    /\ tpc = "outside"
    /\ txlog = <<>>
    /\ ntx = 0
    /\ texc = None

\* @retry(attempts=n, retry_for=(ConnectionError,)) applied to the function
Decorate(n) ==
    /\ rpc = "undecorated"
    /\ attempts' = n
    /\ rpc' = "ready"
    /\ UNCHANGED <<ri, ncalls, last_exc, rresult, ninvocations, rcaller>>
    /\ UNCHANGED <<in_txn, tpc, txlog, ntx, texc>>
    /\ UNCHANGED <<qvars, cvars, tvars>>

\* the head of `for i in range(attempts)` reached with index i, last exception
\* e and c calls made: the function is called, or the loop is over and the
\* wrapper raises
LoopHead(i, e, c) ==
    /\ ri' = i
    /\ last_exc' = e
    /\ IF InRange(i, attempts)
       THEN /\ rpc' = "calling"
            /\ ncalls' = c + 1
            /\ rresult' = None
       ELSE /\ rpc' = "raised"
            /\ ncalls' = c
            /\ rresult' = IF Truthy(e) THEN e ELSE RetryFailed

\* the wrapper is called, from the with-block of demo() or from elsewhere
WrapperCall ==
    /\ rpc \in {"ready", "returned", "raised"}
    /\ tpc \in {"outside", "body2"}
    /\ ninvocations < MaxInvocations
    /\ ninvocations' = ninvocations + 1
    /\ rcaller' = IF tpc = "body2" THEN "body" ELSE "main"
    /\ tpc' = IF tpc = "body2" THEN "inretry" ELSE tpc
    /\ LoopHead(0, None, 0)
    /\ UNCHANGED <<attempts, in_txn, txlog, ntx, texc>>
    /\ UNCHANGED <<qvars, cvars, tvars>>

\* the function returns: the wrapper returns its result
FlakyReturns ==
    /\ rpc = "calling"
    /\ rpc' = "returned"
    /\ rresult' = <<"ok", ncalls>>
    /\ UNCHANGED <<attempts, ri, ncalls, last_exc, ninvocations, rcaller>>
    /\ UNCHANGED <<in_txn, tpc, txlog, ntx, texc>>
    /\ UNCHANGED <<qvars, cvars, tvars>>

\* the function raises: an exception of retry_for is kept and the wrapper
\* sleeps, any other one leaves the wrapper
FlakyRaises(cls) ==
    /\ rpc = "calling"
    /\ IF cls \in retry_for
       THEN /\ last_exc' = <<cls, ncalls>>
            /\ rpc' = "sleeping"
            /\ rresult' = rresult
       ELSE /\ last_exc' = last_exc
            /\ rpc' = "raised"
            /\ rresult' = <<cls, ncalls>>
    /\ UNCHANGED <<attempts, ri, ncalls, ninvocations, rcaller>>
    /\ UNCHANGED <<in_txn, tpc, txlog, ntx, texc>>
    /\ UNCHANGED <<qvars, cvars, tvars>>

\* time.sleep(delay) returns: next round of the for loop
SleepReturns ==
    /\ rpc = "sleeping"
    /\ LoopHead(ri + 1, last_exc, ncalls)
    /\ UNCHANGED <<attempts, ninvocations, rcaller>>
    /\ UNCHANGED <<in_txn, tpc, txlog, ntx, texc>>
    /\ UNCHANGED <<qvars, cvars, tvars>>

\* `with atomic_transaction(conn) as c:` is entered: conn.begin()
Enter ==
    /\ tpc = "outside"
    /\ rpc \notin {"calling", "sleeping"}
    /\ ntx < MaxTxns
    /\ ntx' = ntx + 1
    /\ in_txn' = TRUE
    /\ txlog' = Append(txlog, "begin")
    /\ tpc' = "body1"
    /\ texc' = None
    /\ UNCHANGED <<attempts, rpc, ri, ncalls, last_exc, rresult, ninvocations, rcaller>>
    /\ UNCHANGED <<qvars, cvars, tvars>>

\* the with-block is left with exception exc (None: the body completed)
ExitBlock(exc) ==
    /\ tpc' = "outside"
    /\ texc' = exc
    /\ IF exc = None
       THEN /\ in_txn' = FALSE
            /\ txlog' = Append(txlog, "commit")
       ELSE IF IsException(exc[1])
       THEN /\ in_txn' = FALSE
            /\ txlog' = Append(txlog, "rollback")
       ELSE /\ in_txn' = in_txn
            /\ txlog' = txlog

\* c.execute(sql) in the body
Execute ==
    /\ tpc = "body1"
    /\ IF in_txn
       THEN /\ tpc' = "body2"
            /\ UNCHANGED <<in_txn, txlog, texc>>
       ELSE ExitBlock(<<"RuntimeError", 0>>)
    /\ UNCHANGED ntx
    /\ UNCHANGED <<attempts, rpc, ri, ncalls, last_exc, rresult, ninvocations, rcaller>>
    /\ UNCHANGED <<qvars, cvars, tvars>>

\* the wrapper returned in the body: the body is over
BodyReturns ==
    /\ tpc = "inretry"
    /\ rpc = "returned"
    /\ ExitBlock(None)
    /\ UNCHANGED ntx
    /\ UNCHANGED <<attempts, rpc, ri, ncalls, last_exc, rresult, ninvocations, rcaller>>
    /\ UNCHANGED <<qvars, cvars, tvars>>

\* the wrapper raised in the body: the exception is thrown into the generator
BodyRaises ==
    /\ tpc = "inretry"
    /\ rpc = "raised"
    /\ ExitBlock(rresult)
    /\ UNCHANGED ntx
    /\ UNCHANGED <<attempts, rpc, ri, ncalls, last_exc, rresult, ninvocations, rcaller>>
    /\ UNCHANGED <<qvars, cvars, tvars>>

DecoNext ==
    \/ \E n \in 0..MaxAttempts : Decorate(n)
    \/ WrapperCall
    \/ FlakyReturns
    \/ \E cls \in ExcClasses : FlakyRaises(cls)
    \/ SleepReturns
    \/ Enter
    \/ Execute
    \/ BodyReturns
    \/ BodyRaises

\* --------------------------------- ttl_cache (009_decorators_and_context_managers.py)
\* key = args + tuple(sorted(kwargs.items())) of a call with the one argument x
KeyOfArgs(x) == <<x>>

\* expensive_sync
fn(x) == x * 2

CacheInit ==
    /\ clock = 0
    /\ thpc = [t \in Threads |-> "idle"]
    /\ thkey = [t \in Threads |-> <<>>]
    /\ thnow = [t \in Threads |-> 0]
    /\ thret = [t \in Threads |-> 0]
    /\ cache = [k \in {} |-> 0]
    /\ lock = "free"
    /\ execAt = [x \in CacheArgs |-> <<>>]
    /\ wcalls = 0

\* time.monotonic() advances
Tick ==
    /\ clock < MaxClock
    /\ clock' = clock + 1
    /\ UNCHANGED <<thpc, thkey, thnow, thret, cache, lock, execAt, wcalls>>
    /\ UNCHANGED <<qvars, cvars, dvars>>

\* a thread calls the wrapper with argument x: key and now are computed, then
\* the thread is at `with lock`
Call(t, x) ==
    /\ thpc[t] = "idle"
    /\ wcalls < MaxCalls
    /\ wcalls' = wcalls + 1
    /\ thkey' = [thkey EXCEPT ![t] = KeyOfArgs(x)]
    /\ thnow' = [thnow EXCEPT ![t] = clock]
    /\ thpc' = [thpc EXCEPT ![t] = "waiting"]
    /\ UNCHANGED <<clock, thret, cache, lock, execAt>>
    /\ UNCHANGED <<qvars, cvars, dvars>>

\* the entry of the key is there and not expired for the thread
Fresh(t) == thkey[t] \in DOMAIN cache /\ thnow[t] < cache[thkey[t]].expires_at

\* the thread gets the lock: a fresh entry is returned (and the lock released),
\* otherwise fn is called with the lock held
Acquire(t) ==
    /\ thpc[t] = "waiting"
    /\ lock = "free"
    /\ IF Fresh(t)
       THEN /\ thret' = [thret EXCEPT ![t] = cache[thkey[t]].value]
            /\ thpc' = [thpc EXCEPT ![t] = "idle"]
            /\ UNCHANGED <<lock, execAt>>
       ELSE /\ lock' = t
            /\ thpc' = [thpc EXCEPT ![t] = "running"]
            /\ execAt' = [execAt EXCEPT ![thkey[t][1]] = Append(@, clock)]
            /\ thret' = thret
    /\ UNCHANGED <<clock, thkey, thnow, cache, wcalls>>
    /\ UNCHANGED <<qvars, cvars, dvars>>

\* fn returns: the entry is stored with the `now` read before the lock was
\* taken, the lock is released and the value returned
FnReturns(t) ==
    /\ thpc[t] = "running"
    /\ cache' = [k \in DOMAIN cache \cup {thkey[t]} |->
                    IF k = thkey[t]
                    THEN [expires_at |-> thnow[t] + ttl_seconds, value |-> fn(thkey[t][1])]
                    ELSE cache[k]]
    /\ thret' = [thret EXCEPT ![t] = fn(thkey[t][1])]
    /\ lock' = "free"
    /\ thpc' = [thpc EXCEPT ![t] = "idle"]
    /\ UNCHANGED <<clock, thkey, thnow, execAt, wcalls>>
    /\ UNCHANGED <<qvars, cvars, dvars>>

CacheNext ==
    \/ Tick
    \/ \E t \in Threads, x \in CacheArgs : Call(t, x)
    \/ \E t \in Threads : Acquire(t)
    \/ \E t \in Threads : FnReturns(t)

Init == QueueInit /\ ConsumerInit /\ DecoInit /\ CacheInit

QueueSpec == Init /\ [][QueueNext]_vars

\* the Consumer alone (the TaskQueue stays as constructed, with one worker)
ConsumerOnlyInit == Init /\ nworkers = 1

ConsumerSpec == ConsumerOnlyInit /\ [][ConsumerNext]_vars

\* two Consumer objects with the same group_id and topic, one start() call each
GroupOnlyInit == QueueInit /\ nworkers = 1 /\ GroupInit /\ DecoInit /\ CacheInit

GroupSpec == GroupOnlyInit /\ [][ConsumerNext]_vars

\* demo(): the decorated function and the with-block alone
DecoOnlyInit == Init /\ nworkers = 1

DecoSpec == DecoOnlyInit /\ [][DecoNext]_vars

\* the cached function alone, called from the threads
CacheOnlyInit == Init /\ nworkers = 1

CacheSpec == CacheOnlyInit /\ [][CacheNext]_vars

\* The event loop runs every task that is ready, the 0.5 s poll timer fires, and
\* every handler call ends (by returning or by raising). Producers, callers of
\* stop() and cancel() are free to act or not.
QueueFairness ==
    /\ \A w \in Workers :
          /\ WF_vars(WorkerStart(w))
          /\ WF_vars(WorkerGet(w))
          /\ WF_vars(WorkerTimeout(w))
          /\ WF_vars(HandlerReturns(w) \/ HandlerRaises(w))
    /\ \A s \in Stoppers : WF_vars(StopReturn(s))

QueueFairSpec == QueueSpec /\ QueueFairness

\* ------------------------------------------------------- TaskQueue claims
PreStop == 1..publishedAtStop      \* payloads published before stop() was called

\* C1: with one worker(), every payload published before stop() was called is
\* passed to the handler exactly once (eventually once, never twice), and those
\* handler calls have finished whenever a stop() has returned.
C1_PublishedBeforeStopHandledOnce ==
    /\ [](\A p \in Payloads : calls[p] <= 1)
    /\ [](\A s \in Stoppers : spc[s] = "returned" =>
              \A p \in PreStop : hstate[p] \in Finished)
    /\ ((nworkers = 1 /\ shutdown) ~> (\A p \in PreStop : calls[p] = 1))

\* C3: every stop() that is waiting eventually returns (a worker that was
\* cancelled by the caller excuses it).
C3_StopEventuallyReturns ==
    \A s \in Stoppers :
        (spc[s] \in {"waiting", "woken"}) ~>
            (spc[s] = "returned" \/ \E w \in Workers : wpc[w] = "cancelled")

\* C4: once shutdown_event is set no publish() succeeds: nothing is published
\* beyond what was published when stop() was called.
C4_NoPublishAfterStop == shutdown => published = publishedAtStop

\* C5 (the claim's scenario, capacity 1): at most one payload is pending, and the
\* second publish() completes only after the first payload was dequeued.
C5_SecondPublishWaitsForDequeue ==
    /\ Len(queue) <= 1
    /\ (published >= 2 => calls[1] >= 1)

\* C9: in the step in which a stop() returns, the outstanding count is zero,
\* the queue is empty and no handler call is in progress.
C9_DrainedWhenStopReturns ==
    [][\A s \in Stoppers :
          (spc[s] # "returned" /\ spc'[s] = "returned") =>
              /\ unfinished' = 0
              /\ queue' = <<>>
              /\ \A w \in Workers : wpc'[w] # "handling"]_vars

\* C10: task_done() has been called for a payload only if its handler call has
\* finished (returned, raised or was cancelled); a payload whose handler is running
\* is still counted in the outstanding count.
C10_TaskDoneAfterHandler ==
    /\ \A p \in Payloads : done[p] > 0 => hstate[p] \in Finished
    /\ \A w \in Workers : wpc[w] = "handling" => done[cur[w]] = 0
    /\ unfinished = Cardinality({p \in 1..published : done[p] = 0})

C10_Witness ==
    \E p \in Payloads : done[p] = 1 /\ hstate[p] = "raised" /\ unfinished > 0

\* C13: with one worker(), when the handler is invoked on a payload, the handler
\* calls of all payloads published before it have already been made and have
\* finished, and every payload still pending was published after it (FIFO).
C13_HandledInPublishOrder ==
    [][\A p \in Payloads :
          (nworkers = 1 /\ calls'[p] = calls[p] + 1) =>
              /\ \A q \in 1..published : q < p => (calls[q] = 1 /\ hstate[q] \in Finished)
              /\ \A j \in 1..Len(queue') : queue'[j] > p]_vars

\* the single worker is handling the second payload after the first, a third one
\* is pending
C13_Witness ==
    /\ nworkers = 1
    /\ hstate[1] = "returned" /\ hstate[2] = "running"
    /\ Len(queue) >= 1

\* C14: a stop() called after another stop() has returned returns at once, without
\* waiting, and leaves the state of the queue as that earlier stop() left it.
C14_StopAgainReturnsAtOnce ==
    [][\A s \in Stoppers :
          (/\ spc[s] = "idle" /\ spc'[s] # "idle"
           /\ \E t \in Stoppers : spc[t] = "returned") =>
              /\ spc'[s] = "returned"
              /\ <<queue, unfinished, shutdown, wpc, cur, published, calls, hstate, done>>' =
                 <<queue, unfinished, shutdown, wpc, cur, published, calls, hstate, done>>]_vars

\* C18: shutdown_event changes only in a step in which stop() is called, and only
\* from unset to set; no publish() and no step of worker() changes it.
C18_FlagWrittenOnlyByStop ==
    [][shutdown' # shutdown =>
          /\ ~shutdown /\ shutdown'
          /\ \E s \in Stoppers : spc[s] = "idle" /\ spc'[s] # "idle"]_vars

\* publish() and worker() both acted after the flag was set, and it is still set
C18_Witness ==
    /\ shutdown
    /\ \E p \in Payloads : p > publishedAtStop /\ hstate[p] = "returned"

\* C19: in the step in which worker() returns normally, shutdown_event is set and
\* the queue is empty.
C19_WorkerExitsOnlyWhenStoppedAndEmpty ==
    [][\A w \in Workers :
          (wpc[w] # "exited" /\ wpc'[w] = "exited") =>
              (shutdown' /\ empty(queue'))]_vars

\* a worker that handled a payload has returned
C19_Witness ==
    \E w \in Workers : wpc[w] = "exited" /\ hstate[1] = "returned"

\* C20: a poll timeout on an empty queue with shutdown_event set makes the worker
\* exit (one timeout suffices), and a worker waiting for an item once the flag is
\* set always ends, whether or not an item arrives.
C20_ExitAfterOnePollTimeout ==
    /\ [][\A w \in Workers :
            (wpc[w] = "getting" /\ shutdown /\ empty(queue) /\ wpc'[w] # "getting") =>
                wpc'[w] \in {"exited", "cancelled"}]_vars
    /\ \A w \in Workers :
          (wpc[w] = "getting" /\ shutdown /\ empty(queue)) ~>
              (wpc[w] \in {"exited", "cancelled"} \/ ~empty(queue))

\* one worker has left its loop on an empty queue that never held an item,
\* another one is still waiting for its poll timeout
C20_Witness ==
    /\ published = 0 /\ shutdown
    /\ wpc[1] = "exited" /\ wpc[2] = "getting"

\* C21: task_done() is called exactly once for a payload, at the end of its
\* handler call whatever its outcome (returned, raised, cancelled), and in no
\* other step (not on a poll timeout); the outstanding count is the number of
\* completed publishes minus the number of finished handler calls, never negative.
C21_TaskDoneOncePerDequeue ==
    /\ [](\A p \in Payloads : done[p] = (IF hstate[p] \in Finished THEN 1 ELSE 0))
    /\ [](/\ unfinished >= 0
          /\ unfinished = published - Cardinality({p \in Payloads : hstate[p] \in Finished}))
    /\ [][done' # done =>
             \E w \in Workers :
                 /\ wpc[w] = "handling" /\ wpc'[w] # "handling"
                 /\ done' = [done EXCEPT ![cur[w]] = @ + 1]]_vars

\* one handler call raised, another was cancelled: task_done() ran for both
C21_Witness ==
    \E p \in Payloads, q \in Payloads :
        /\ hstate[p] = "raised" /\ done[p] = 1
        /\ hstate[q] = "cancelled" /\ done[q] = 1

\* C27: with several worker() tasks, no payload is handled twice, every published
\* payload is eventually handled, and in the step in which a stop() returns no
\* worker is inside a handler call.
C27_EachPayloadHandledByOneWorker ==
    /\ [](\A p \in Payloads : calls[p] <= 1)
    /\ \A p \in Payloads : (nworkers >= 2 /\ published >= p) ~> (calls[p] = 1)
    /\ [][\A s \in Stoppers :
             (spc[s] # "returned" /\ spc'[s] = "returned") =>
                 \A w \in Workers : wpc'[w] # "handling"]_vars

\* -------------------------------------------------------- Consumer claims
\* a start() call of object c is awaiting a handler for the message with key k
Dispatching(c, k) ==
    \E l \in Loops : owner[l] = c /\ lpc[l] = "handling" /\ KeyOf(lmsg[l]) = k

\* a start() call of object c was cancelled while it dispatched key k
CancelledOn(c, k) ==
    \E l \in Loops : owner[l] = c /\ lexc[l] = "cancelled" /\ KeyOf(lmsg[l]) = k

\* C2: whatever the broker delivers and however the start() loops of one Consumer
\* interleave, each registered handler (each entry of the handler list) is invoked
\* at most once per key; the handler registered when a key was first delivered is
\* invoked exactly once however often the key is delivered; and the delivery of a
\* key already recorded invokes nothing and leaves every loop where it was.
C2_HandlersOncePerKey ==
    /\ [](\A c \in Consumers, k \in Keys, i \in Slots : inv[c][k][i] <= 1)
    /\ [](\A c \in Consumers, k \in Keys :
            (k \in processed_keys[c] /\ regAt[c][k] >= 1) => inv[c][k][1] = 1)
    /\ [][(delivered' = delivered + 1 /\ processed_keys' = processed_keys) =>
             (inv' = inv /\ lpc' = lpc)]_vars

\* one loop is still awaiting the handler of a message while the same key was
\* delivered again and skipped, and a loop goes on polling
C2_Witness ==
    \E m \in Messages, l1 \in Loops, l2 \in Loops :
        /\ lpc[l1] = "handling" /\ lmsg[l1] = m
        /\ lpc[l2] = "polling"
        /\ processed_keys["c1"] = {KeyOf(m)}
        /\ delivered = 2
        /\ inv["c1"][KeyOf(m)][1] = 1

\* C6: once the dispatch of a message with a new key is over (and was not
\* cancelled), every handler that was registered for the topic when the message
\* arrived has been invoked exactly once, with that message's payload.
C6_EveryHandlerInvokedOnce ==
    \A c \in Consumers, m \in Messages :
        (/\ KeyOf(m) \in processed_keys[c]
         /\ ~Dispatching(c, KeyOf(m))
         /\ ~CancelledOn(c, KeyOf(m))) =>
            \A i \in 1..regAt[c][KeyOf(m)] :
                /\ inv[c][KeyOf(m)][i] = 1
                /\ got[c][KeyOf(m)][i] = PayloadOf(m)

\* C7: when start() has ended because a handler raised on a message, every
\* handler registered for the topic when the message arrived was invoked for it.
C7_RaiseDoesNotSuppressSiblings ==
    \A l \in Loops :
        (lpc[l] = "failed" /\ lexc[l] = "raised") =>
            \A i \in 1..regAt[owner[l]][KeyOf(lmsg[l])] :
                inv[owner[l]][KeyOf(lmsg[l])][i] >= 1

\* C8: no worker() task and no start() call is ever ended by the exception of a
\* handler.
C8_HandlerRaiseNeverEndsLoop ==
    /\ \A w \in Workers : wpc[w] # "failed"
    /\ \A l \in Loops : ~(lpc[l] \in {"stopping", "failed"} /\ lexc[l] = "raised")

\* C11: a key is committed only when the dispatch of its message is over: no
\* start() call of the group is still awaiting a handler for it, and every handler
\* registered when the message arrived has been invoked for it.
C11_CommitAfterHandlers ==
    \A k \in committed, c \in Consumers :
        k \in processed_keys[c] =>
            /\ ~Dispatching(c, k)
            /\ \A i \in 1..regAt[c][k] : inv[c][k][i] >= 1

\* handler function h has been invoked for key k by object c so many times
InvocationsOf(c, k, h) ==
    Cardinality({i \in 1..Len(TopicHandlers(c)) :
                    TopicHandlers(c)[i] = h /\ inv[c][k][i] >= 1})

\* C12: however often on(event, h) was called with the same h, h is invoked at
\* most once for a message.
C12_RepeatedOnIsIdempotent ==
    \A c \in Consumers, k \in Keys, h \in HandlerIds : InvocationsOf(c, k, h) <= 1

\* C15: while a handler of a message has not finished, every other handler that
\* was registered for the message has been started as well.
C15_HandlersRunConcurrently ==
    \A l \in Loops :
        lpc[l] = "handling" =>
            \A i \in 1..regAt[owner[l]][KeyOf(lmsg[l])] :
                inv[owner[l]][KeyOf(lmsg[l])][i] >= 1

\* C16: two Consumer objects with the same group_id never both invoke handlers
\* for the same key.
C16_DedupAcrossGroup ==
    \A c1 \in Consumers, c2 \in Consumers, k \in Keys :
        (c1 # c2 /\ group_id[c1] = group_id[c2]) =>
            ~(/\ \E i \in Slots : inv[c1][k][i] >= 1
              /\ \E j \in Slots : inv[c2][k][j] >= 1)

\* C17: the step that records a new key while no handler is registered for the
\* topic invokes nothing, raises nothing, leaves the handlers map as it is (no
\* entry is created) and leaves the loop waiting for the next message.
C17_NoHandlerIsNoOp ==
    [][\A c \in Consumers, k \in Keys :
          (/\ k \notin processed_keys[c] /\ k \in processed_keys'[c]
           /\ Len(TopicHandlers(c)) = 0) =>
              /\ inv' = inv /\ got' = got
              /\ lexc' = lexc /\ lpc' = lpc
              /\ handlers' = handlers]_vars

\* both messages were dispatched with no handler registered for the topic (one
\* is registered for another event); the loop is waiting for the next message
C17_Witness ==
    /\ processed_keys["c1"] = Keys
    /\ \A k \in Keys : regAt["c1"][k] = 0
    /\ Topic \notin DOMAIN handlers["c1"]
    /\ "order.paid" \in DOMAIN handlers["c1"]
    /\ \E l \in Loops : lpc[l] = "polling"

\* C22: processed_keys of an object is at every point the set of the keys of the
\* messages the object has received, and no step removes a key from it.
C22_ProcessedKeysOnlyGrow ==
    /\ [](\A c \in Consumers : processed_keys[c] = received[c])
    /\ [][\A c \in Consumers : processed_keys[c] \subseteq processed_keys'[c]]_vars

\* both messages were received, one of them twice
C22_Witness ==
    /\ processed_keys["c1"] = Keys
    /\ delivered = 3

\* a start() call of object c was ended by a handler that raised on key k
RaisedOn(c, k) ==
    \E l \in Loops : owner[l] = c /\ lexc[l] = "raised" /\ KeyOf(lmsg[l]) = k

\* C25: whenever a handler is running (or has run) for a message, the key of the
\* message is in processed_keys; and the redelivery, to the same object, of a
\* message on which a handler raised invokes no handler.
C25_KeyRecordedBeforeHandlers ==
    /\ [](\A l \in Loops :
            lpc[l] = "handling" => KeyOf(lmsg[l]) \in processed_keys[owner[l]])
    /\ [](\A c \in Consumers, k \in Keys, i \in Slots :
            inv[c][k][i] >= 1 => k \in processed_keys[c])
    /\ [][\A l \in Loops, m \in Messages :
            (Deliver(l, m) /\ RaisedOn(owner[l], KeyOf(m))) =>
                (inv' = inv /\ lpc' = lpc)]_vars

\* a start() call was ended by a handler that raised on a message; the message
\* was delivered again to another start() call of the object, which did not
\* invoke the handler and is waiting for the next message
C25_Witness ==
    \E l1 \in Loops, l2 \in Loops, m \in Messages :
        /\ lpc[l1] = "failed" /\ lexc[l1] = "raised" /\ lmsg[l1] = m
        /\ lpc[l2] = "polling"
        /\ delivered = 2 /\ received["c1"] = {KeyOf(m)}
        /\ inv["c1"][KeyOf(m)][1] = 1

\* C26: every handler invocation is made under the event name equal to the topic,
\* with a handler registered under that name; the handlers invoked for the key
\* of a message are those of that list (the first one always, all of them once
\* the dispatch of the message has ended with no handler raising and no
\* cancellation); a handler registered under another event name is never invoked.
C26_DispatchUnderTopicOnly ==
    /\ \A x \in invokedAs :
          /\ x[2] = Topic
          /\ \E i \in 1..Len(DictGet(handlers[x[1]], Topic, <<>>)) :
                 handlers[x[1]][Topic][i] = x[3]
    /\ \A c \in Consumers, k \in Keys :
          (k \in processed_keys[c] /\ regAt[c][k] >= 1) =>
              <<c, Topic, handlers[c][Topic][1]>> \in invokedAs
    /\ \A c \in Consumers, k \in Keys :
          (/\ k \in processed_keys[c]
           /\ ~Dispatching(c, k) /\ ~CancelledOn(c, k) /\ ~RaisedOn(c, k)) =>
              \A i \in 1..regAt[c][k] :
                  /\ inv[c][k][i] = 1
                  /\ <<c, Topic, handlers[c][Topic][i]>> \in invokedAs

\* H1 is registered under the topic and H2 under another event name; a message
\* was dispatched: H1 was invoked and H2 was not
C26_Witness ==
    /\ DOMAIN handlers["c1"] = Events
    /\ handlers["c1"][Topic] = <<"H1">>
    /\ handlers["c1"]["order.paid"] = <<"H2">>
    /\ regAt["c1"][KeyOf(CHOOSE m \in Messages : m.offset = 0)] = 1
    /\ invokedAs = {<<"c1", Topic, "H1">>}
    /\ \E l \in Loops : lpc[l] = "polling"

\* C28: within a start() call, the handlers of a message are invoked one at a
\* time in the order of the list: the handler at position i is invoked when the
\* one at position i - 1 has returned, the first one when the loop was waiting for
\* a message, and the loop asks for the next message only after the last one.
C28_HandlersStrictlySequential ==
    /\ [](\A l \in Loops :
            lpc[l] = "handling" =>
                \A j \in Slots :
                    inv[owner[l]][KeyOf(lmsg[l])][j] = (IF j <= lidx[l] THEN 1 ELSE 0))
    /\ [][\A c \in Consumers, k \in Keys, i \in Slots :
            inv'[c][k][i] > inv[c][k][i] =>
                \E l \in Loops :
                    /\ owner[l] = c /\ lidx'[l] = i /\ KeyOf(lmsg'[l]) = k
                    /\ \/ i = 1 /\ lpc[l] = "polling"
                       \/ i > 1 /\ lpc[l] = "handling" /\ lidx[l] = i - 1
                                /\ lmsg[l] = lmsg'[l]]_vars
    /\ [][\A l \in Loops :
            (lpc[l] = "handling" /\ lpc'[l] = "polling") =>
                lidx[l] >= Len(TopicHandlers(owner[l]))]_vars

\* the second handler of a message is awaited after the first one returned
C28_Witness ==
    \E l \in Loops :
        /\ lpc[l] = "handling" /\ lidx[l] = 2
        /\ inv[owner[l]][KeyOf(lmsg[l])][1] = 1
        /\ inv[owner[l]][KeyOf(lmsg[l])][2] = 1

\* C29: a start() call that leaves its message loop (a handler raised, the task was
\* cancelled, the async for ended) calls consumer.stop() in that step, for the
\* first and only time; it has not called it while in the loop.
C29_BrokerStoppedExactlyOnce ==
    /\ [](\A l \in Loops :
            /\ stops[l] <= 1
            /\ lpc[l] \in {"polling", "handling"} => stops[l] = 0
            /\ lpc[l] = "stopping" => stops[l] = 1)
    /\ [][\A l \in Loops :
            /\ (lpc[l] \in {"polling", "handling"} /\ lpc'[l] \notin {"polling", "handling"})
                   => (lpc'[l] = "stopping" /\ stops'[l] = 1)
            /\ lpc[l] = "stopping" => stops'[l] = 1]_vars

\* one start() call was ended by a handler that raised, the other was cancelled
\* while it dispatched a message: each has called consumer.stop() once
C29_Witness ==
    \E l1 \in Loops, l2 \in Loops :
        /\ lpc[l1] = "failed" /\ lexc[l1] = "raised" /\ stops[l1] = 1
        /\ lpc[l2] = "cancelled" /\ lmsg[l2] # NoMsg /\ stops[l2] = 1

\* --------------------------------------- retry and atomic_transaction claims
\* C23: every begin() is followed by exactly one commit() or rollback() before the
\* with-block is left: a commit when the body completed, a rollback when the body
\* failed; outside the block the connection is never in a transaction.
C23_TransactionAlwaysClosed ==
    /\ tpc = "outside" => ~in_txn
    /\ \A i \in 1..Len(txlog) :
          IF txlog[i] = "begin"
          THEN IF i < Len(txlog) THEN txlog[i + 1] \in {"commit", "rollback"}
                                 ELSE tpc # "outside"
          ELSE i > 1 /\ txlog[i - 1] = "begin"
    /\ (tpc = "outside" /\ ntx >= 1) =>
          txlog[Len(txlog)] = (IF texc = None THEN "commit" ELSE "rollback")

\* the first k calls of the function made in the current wrapper call failed
\* with an exception of retry_for, the k-th one being the last caught
FailedInE(k) == ri = k /\ (k >= 1 => last_exc = <<"ConnectionError", k>>)

\* C30: a wrapper call calls the function at most `attempts` times; it returns
\* the result of the first call that succeeds, all the calls before it having
\* failed in retry_for, with no further call; an exception outside retry_for
\* leaves the wrapper from the call that raised it, with no further call; after
\* `attempts` failures in retry_for the exception of the last call is raised,
\* RuntimeError when attempts is 0 and the function was not called.
C30_RetryAtMostNCalls ==
    /\ [](ncalls <= attempts)
    /\ [](rpc = "calling" => FailedInE(ncalls - 1))
    /\ [](rpc = "returned" =>
            /\ rresult = <<"ok", ncalls>>
            /\ FailedInE(ncalls - 1))
    /\ [](rpc = "raised" =>
            \/ /\ rresult[1] \in ExcClasses \ retry_for
               /\ rresult[2] = ncalls
               /\ FailedInE(ncalls - 1)
            \/ /\ ncalls = attempts
               /\ FailedInE(attempts)
               /\ rresult = (IF attempts = 0 THEN RetryFailed
                                             ELSE <<"ConnectionError", attempts>>))
    /\ [][(rpc \in {"returned", "raised"} /\ ninvocations' = ninvocations) =>
             (ncalls' = ncalls /\ rpc' = rpc /\ rresult' = rresult)]_vars

\* the function failed MaxAttempts times with ConnectionError and the wrapper
\* raised the last of these exceptions
C30_Witness ==
    /\ attempts = MaxAttempts
    /\ rpc = "raised"
    /\ ncalls = MaxAttempts
    /\ rresult = <<"ConnectionError", MaxAttempts>>

\* ------------------------------------------------------- ttl_cache claims
\* C24: for each argument, two executions of the function are at least ttl_seconds
\* apart, whatever the threads do; and a call whose `now` is before the expiry of
\* the entry of its key returns the cached value without executing the function.
C24_OncePerTtlWindow ==
    /\ [](\A x \in CacheArgs : \A j \in 1..(Len(execAt[x]) - 1) :
            execAt[x][j + 1] - execAt[x][j] >= ttl_seconds)
    /\ [][\A t \in Threads :
            (thpc[t] = "waiting" /\ thpc'[t] # "waiting" /\ Fresh(t)) =>
                /\ thpc'[t] = "idle"
                /\ thret'[t] = cache[thkey[t]].value
                /\ execAt' = execAt]_vars

====
